---------------------------- MODULE Spec2Model ----------------------------
(***************************************************************************)
(* Study Plan Progress Tracker (src/app.py).                               *)
(*                                                                         *)
(* PDFTopicExtractor turns the text of a PDF into a TopicMap (an ordered   *)
(* dict Subject -> list of Subtopic); StudyTracker keeps one TopicMap and  *)
(* one dict of checkbox variables and saves / loads the flags to           *)
(* progress.json.                                                          *)
(*                                                                         *)
(* A Python str is a sequence of one-character strings.  The three         *)
(* non-ASCII bullet glyphs of the patterns are written as the atoms        *)
(* "U2022", "U25CF" and "U203B" (their code points).  A Python dict is a   *)
(* sequence of entries in insertion order.                                 *)
(***************************************************************************)
EXTENDS Integers, Sequences, FiniteSets, TLC

VARIABLES
    topics,         \* StudyTracker.topics: the current TopicMap
    checkbox_vars,  \* StudyTracker.checkbox_vars: dict item -> BooleanVar value
    file,           \* progress.json: [exists, content]
    dialogs,        \* the messagebox calls of the last button handler, in order
    ext             \* the last run of extract_topics_from_pdf: input, locals, result

vars == <<topics, checkbox_vars, file, dialogs, ext>>

---------------------------------------------------------------------------
(* Characters and the character classes of the regular expressions.        *)

Upper == {"A","B","C","D","E","F","G","H","I","J","K","L","M",
          "N","O","P","Q","R","S","T","U","V","W","X","Y","Z"}

Lower == {"a","b","c","d","e","f","g","h","i","j","k","l","m",
          "n","o","p","q","r","s","t","u","v","w","x","y","z"}

Digit == {"0","1","2","3","4","5","6","7","8","9"}

\* \s of the patterns and the whitespace str.strip() removes (a line holds no "\n")
Space == {" ", "\t"}

\* [IVX]
Roman == {"I", "V", "X"}

\* [-•●※*] of SUBTOPIC_PATTERNS[0]
Bullet == {"-", "U2022", "U25CF", "U203B", "*"}

\* [-•●※*\d.] of the substitution at line 89
StripClass == Bullet \cup Digit \cup {"."}

\* [A-Za-z\s\-] of SUBJECT_PATTERNS[2]
HeadingClass == Upper \cup Lower \cup Space \cup {"-"}

---------------------------------------------------------------------------
(* str helpers.                                                            *)

\* s[i] exists and lies in class C
At(s, i, C) == i >= 1 /\ i <= Len(s) /\ s[i] \in C

\* the first position >= i whose character is not in C (Len(s)+1 when none):
\* where a greedy C* started at i ends
RECURSIVE Run(_, _, _)
Run(s, i, C) == IF At(s, i, C) THEN Run(s, i + 1, C) ELSE i

\* s[i..] (1-based, empty when i > Len(s))
From(s, i) == IF i > Len(s) THEN << >> ELSE SubSeq(s, i, Len(s))

\* s.startswith(p)
StartsWith(s, p) == Len(s) >= Len(p) /\ SubSeq(s, 1, Len(p)) = p

\* the last position <= i whose character is not in Space (0 when none)
RECURSIVE RunBack(_, _)
RunBack(s, i) == IF At(s, i, Space) THEN RunBack(s, i - 1) ELSE i

\* str.strip()
Strip(s) ==
    LET a == Run(s, 1, Space)
        b == RunBack(s, Len(s))
    IN  IF a > b THEN << >> ELSE SubSeq(s, a, b)

\* the positions of the "\n" characters of s
NewlinePositions(s) == {i \in 1..Len(s) : s[i] = "\n"}

\* the pieces of s that start at position i, each ending before the next "\n"
RECURSIVE SplitFrom(_, _)
SplitFrom(s, i) ==
    LET later == {j \in NewlinePositions(s) : j >= i}
        nl == CHOOSE j \in later : \A k \in later : j <= k
    IN  IF later = {} THEN << From(s, i) >>
        ELSE << SubSeq(s, i, nl - 1) >> \o SplitFrom(s, nl + 1)

\* str.split('\n'): always at least one piece
SplitLines(s) == SplitFrom(s, 1)

\* '  ' in line
HasDoubleSpace(s) == \E i \in 1..(Len(s) - 1) : s[i] = " " /\ s[i + 1] = " "

\* str.isupper(): at least one cased character and no lower-case one
IsUpperStr(s) ==
    /\ \E i \in 1..Len(s) : s[i] \in Upper
    /\ \A i \in 1..Len(s) : s[i] \notin Lower

\* str.endswith(':')
EndsWithColon(s) == Len(s) >= 1 /\ s[Len(s)] = ":"

ModuleWord == <<"M", "o", "d", "u", "l", "e">>

---------------------------------------------------------------------------
(* SUBJECT_PATTERNS, each tried with re.match on the stripped line.  In    *)
(* every pattern the class of a repetition is disjoint from what may       *)
(* follow it, so the greedy run is the only way to match.                  *)

\* \[\d+L\] at position i
LectureTag(s, i) ==
    LET f == Run(s, i + 1, Digit)
    IN  /\ At(s, i, {"["})
        /\ f > i + 1
        /\ At(s, f, {"L"})
        /\ At(s, f + 1, {"]"})

\* ^Module\s+<Num>+:?\s*\[\d+L\]
ModuleHeading(s, Num) ==
    LET a == Len(ModuleWord) + 1
        b == Run(s, a, Space)
        c == Run(s, b, Num)
        d == IF At(s, c, {":"}) THEN c + 1 ELSE c
        e == Run(s, d, Space)
    IN  /\ StartsWith(s, ModuleWord)
        /\ b > a
        /\ c > b
        /\ LectureTag(s, e)

\* r'^Module\s+[IVX]+:?\s*\[\d+L\]'
SubjectPattern1(s) == ModuleHeading(s, Roman)

\* r'^Module\s+\d+:?\s*\[\d+L\]'
SubjectPattern2(s) == ModuleHeading(s, Digit)

\* r'^[A-Z][A-Za-z\s\-]+:'
SubjectPattern3(s) ==
    LET r == Run(s, 2, HeadingClass)
    IN  /\ At(s, 1, Upper)
        /\ r > 2
        /\ At(s, r, {":"})

\* r'^[IVX]+\.'
SubjectPattern4(s) ==
    LET r == Run(s, 1, Roman)
    IN  r > 1 /\ At(s, r, {"."})

\* r'^\d+\.\s*[A-Z]'
SubjectPattern5(s) ==
    LET r == Run(s, 1, Digit)
        t == Run(s, r + 1, Space)
    IN  /\ r > 1
        /\ At(s, r, {"."})
        /\ At(s, t, Upper)

\* any(re.match(pattern, clean_line) for pattern in SUBJECT_PATTERNS)
IsSubject(s) ==
    \/ SubjectPattern1(s)
    \/ SubjectPattern2(s)
    \/ SubjectPattern3(s)
    \/ SubjectPattern4(s)
    \/ SubjectPattern5(s)

---------------------------------------------------------------------------
(* SUBTOPIC_PATTERNS, each tried with re.match on the raw line.            *)

\* r'^\s*[-•●※*]\s'
SubtopicPattern1(s) ==
    LET a == Run(s, 1, Space)
    IN  At(s, a, Bullet) /\ At(s, a + 1, Space)

\* r'^\s*[a-z]\)\s'
SubtopicPattern2(s) ==
    LET a == Run(s, 1, Space)
    IN  At(s, a, Lower) /\ At(s, a + 1, {")"}) /\ At(s, a + 2, Space)

\* r'^\s*\d+\.\d*\s'
SubtopicPattern3(s) ==
    LET a == Run(s, 1, Space)
        b == Run(s, a, Digit)
        c == Run(s, b + 1, Digit)
    IN  b > a /\ At(s, b, {"."}) /\ At(s, c, Space)

\* r'^\s{2,}[A-Z][^:]+:' : a non-colon after the capital, and a colon later
SubtopicPattern4(s) ==
    LET a == Run(s, 1, Space)
    IN  /\ a >= 3
        /\ At(s, a, Upper)
        /\ a + 1 <= Len(s) /\ s[a + 1] # ":"
        /\ \E j \in (a + 2)..Len(s) : s[j] = ":"

\* r'^\s{2,}[A-Z]'
SubtopicPattern5(s) ==
    LET a == Run(s, 1, Space)
    IN  a >= 3 /\ At(s, a, Upper)

\* r'(?<=:)([^,.]+)(?=[,.])' : re.match tries position 0 only, where the
\* lookbehind (?<=:) has no character to look at, so it never matches
SubtopicPattern6(s) == FALSE

\* any(re.match(pattern, line) for pattern in SUBTOPIC_PATTERNS)
IsSubtopic(s) ==
    \/ SubtopicPattern1(s)
    \/ SubtopicPattern2(s)
    \/ SubtopicPattern3(s)
    \/ SubtopicPattern4(s)
    \/ SubtopicPattern5(s)
    \/ SubtopicPattern6(s)

\* re.sub(r'^\s*[-•●※*\d.]\s*', '', clean_line): ONE character of the class
\* and the whitespace after it are removed from the front, nothing else
StripMarker(s) ==
    LET a == Run(s, 1, Space)
    IN  IF At(s, a, StripClass) THEN From(s, Run(s, a + 1, Space)) ELSE s

\* r'^\d+\.?\s+[A-Z]' of the alternative parsing
NumberedHeading(s) ==
    LET r == Run(s, 1, Digit)
        d == IF At(s, r, {"."}) THEN r + 1 ELSE r
        t == Run(s, d, Space)
    IN  r > 1 /\ t > d /\ At(s, t, Upper)

---------------------------------------------------------------------------
(* Python dicts, as sequences of entries [k, v] in insertion order.        *)

DictKeys(d) == {d[i].k : i \in 1..Len(d)}

DictHas(d, k) == \E i \in 1..Len(d) : d[i].k = k

\* d[k] for a key that is present
DictGet(d, k) == d[CHOOSE i \in 1..Len(d) : d[i].k = k].v

\* d[k] = v: a present key keeps its place, a new key goes last
DictPut(d, k, v) ==
    IF DictHas(d, k)
    THEN [i \in 1..Len(d) |-> IF d[i].k = k THEN [k |-> k, v |-> v] ELSE d[i]]
    ELSE Append(d, [k |-> k, v |-> v])

\* {k: v for k, v in topics.items() if v}
RemoveEmptySubjects(d) == SelectSeq(d, LAMBDA e : e.v # << >>)

\* current_subject = None; a subject is a non-empty stripped line
NoSubject == << >>

---------------------------------------------------------------------------
(* PDFTopicExtractor.extract_topics_from_pdf and _clean_and_validate_topics *)

\* as PrimaryStep, but a Subject that is already a key keeps its list
PrimaryStep_NoReset(st, line) ==
    LET clean_line == Strip(line)
        subtopic == StripMarker(clean_line)
    IN  IF clean_line = << >> THEN st
        ELSE IF IsSubject(clean_line)
        THEN [topics |-> IF DictHas(st.topics, clean_line) THEN st.topics
                         ELSE DictPut(st.topics, clean_line, << >>),
              current_subject |-> clean_line]
        ELSE IF st.current_subject # NoSubject
                /\ (IsSubtopic(line) \/ HasDoubleSpace(line))
                /\ Strip(subtopic) # << >>
        THEN [st EXCEPT !.topics =
                 DictPut(@, st.current_subject,
                         Append(DictGet(@, st.current_subject), Strip(subtopic)))]
        ELSE st

\* as PrimaryStep, but a Subtopic goes to the first Subject of the dict
PrimaryStep_AppendToFirst(st, line) ==
    LET clean_line == Strip(line)
        subtopic == StripMarker(clean_line)
    IN  IF clean_line = << >> THEN st
        ELSE IF IsSubject(clean_line)
        THEN [topics |-> DictPut(st.topics, clean_line, << >>),
              current_subject |-> clean_line]
        ELSE IF st.current_subject # NoSubject
                /\ (IsSubtopic(line) \/ HasDoubleSpace(line))
                /\ Strip(subtopic) # << >>
        THEN [st EXCEPT !.topics =
                 DictPut(@, st.topics[1].k,
                         Append(DictGet(@, st.topics[1].k), Strip(subtopic)))]
        ELSE st

\* one round of the loop at lines 72-92; st = [topics, current_subject]
PrimaryStep(st, line) ==
    LET clean_line == Strip(line)
        subtopic == StripMarker(clean_line)
    IN  IF clean_line = << >> THEN st
        ELSE IF IsSubject(clean_line)
        THEN [topics |-> DictPut(st.topics, clean_line, << >>),
              current_subject |-> clean_line]
        ELSE IF st.current_subject # NoSubject
                /\ (IsSubtopic(line) \/ HasDoubleSpace(line))
                /\ Strip(subtopic) # << >>
        THEN [st EXCEPT !.topics =
                 DictPut(@, st.current_subject,
                         Append(DictGet(@, st.current_subject), Strip(subtopic)))]
        ELSE st

RECURSIVE PrimaryPass(_, _, _)
PrimaryPass(lines, i, st) ==
    IF i > Len(lines) THEN st
    ELSE PrimaryPass(lines, i + 1, PrimaryStep(st, lines[i]))

\* len(clean_line) > 3 at line 123
MinHeadingLen == 3

\* one round of the loop at lines 118-130
AlternativeStep(st, line) ==
    LET clean_line == Strip(line)
    IN  IF clean_line = << >> THEN st
        ELSE IF /\ Len(clean_line) > MinHeadingLen
                /\ \/ IsUpperStr(clean_line)
                   \/ EndsWithColon(clean_line)
                   \/ NumberedHeading(clean_line)
        THEN [topics |-> DictPut(st.topics, clean_line, << >>),
              current_subject |-> clean_line]
        ELSE IF st.current_subject # NoSubject
        THEN [st EXCEPT !.topics =
                 DictPut(@, st.current_subject,
                         Append(DictGet(@, st.current_subject), clean_line))]
        ELSE st

RECURSIVE AlternativePass(_, _, _)
AlternativePass(lines, i, st) ==
    IF i > Len(lines) THEN st
    ELSE AlternativePass(lines, i + 1, AlternativeStep(st, lines[i]))

\* [:10] at line 140
DefaultSectionMax == 10

DetectedContent ==
    <<"D","e","t","e","c","t","e","d"," ","C","o","n","t","e","n","t">>

\* [line.strip() for line in lines if line.strip()][:10]
RECURSIVE NonEmptyStripped(_, _)
NonEmptyStripped(lines, i) ==
    IF i > Len(lines) THEN << >>
    ELSE (IF Strip(lines[i]) = << >> THEN << >> ELSE << Strip(lines[i]) >>)
         \o NonEmptyStripped(lines, i + 1)

\* as FirstN, with the slice [:10] left out
FirstN_All(s, n) == s

FirstN(s, n) == IF Len(s) <= n THEN s ELSE SubSeq(s, 1, n)

\* as _clean_and_validate_topics, without the default section of lines 133-140
_clean_and_validate_topics_NoDefaultSection(tps, lines) ==
    LET cleaned == RemoveEmptySubjects(tps)
        tier2ran == (cleaned = << >>)
        after2 == IF tier2ran
                  THEN AlternativePass(lines, 1,
                           [topics |-> cleaned, current_subject |-> NoSubject]).topics
                  ELSE cleaned
    IN  [result |-> after2,
         cleaned1 |-> cleaned,
         tier2ran |-> tier2ran,
         tier2 |-> IF tier2ran THEN after2 ELSE << >>,
         tier3ran |-> FALSE,
         dialogs |-> << >>]

\* _clean_and_validate_topics(topics, lines), with the branches it took
_clean_and_validate_topics(tps, lines) ==
    LET cleaned == RemoveEmptySubjects(tps)
        tier2ran == (cleaned = << >>)
        after2 == IF tier2ran
                  THEN AlternativePass(lines, 1,
                           [topics |-> cleaned, current_subject |-> NoSubject]).topics
                  ELSE cleaned
        tier3ran == (after2 = << >>)
        after3 == IF tier3ran
                  THEN DictPut(after2, DetectedContent,
                               FirstN(NonEmptyStripped(lines, 1), DefaultSectionMax))
                  ELSE after2
    IN  [result |-> after3,
         cleaned1 |-> cleaned,
         tier2ran |-> tier2ran,
         tier2 |-> IF tier2ran THEN after2 ELSE << >>,
         tier3ran |-> tier3ran,
         dialogs |-> IF tier3ran THEN << "showwarning" >> ELSE << >>]

\* as PagesText, with the loop ended by the first page that raises
RECURSIVE PagesText_StopAtBadPage(_, _)
PagesText_StopAtBadPage(pages, i) ==
    IF i > Len(pages) \/ ~pages[i].ok THEN << >>
    ELSE pages[i].text \o PagesText_StopAtBadPage(pages, i + 1)

\* text after the loop at lines 62-69: a page whose extract_text() raises
\* adds nothing
RECURSIVE PagesText(_, _)
PagesText(pages, i) ==
    IF i > Len(pages) THEN << >>
    ELSE (IF pages[i].ok THEN pages[i].text ELSE << >>) \o PagesText(pages, i + 1)

ErrorKey == <<"E","r","r","o","r">>
FailedToOpen == <<"F","a","i","l","e","d"," ","t","o"," ","o","p","e","n"," ","f","i","l","e">>
FailedToRead == <<"F","a","i","l","e","d"," ","t","o"," ","r","e","a","d"," ","P","D","F">>

\* the sentinel returned by the two handlers at lines 98-106
ErrorMap(reason) == << [k |-> ErrorKey, v |-> << reason >>] >>

NoRun ==
    [called |-> FALSE, doc |-> [open_ok |-> FALSE, read_ok |-> FALSE, pages |-> << >>],
     opened |-> FALSE, lines |-> << >>, tier1 |-> << >>, cleaned1 |-> << >>,
     tier2ran |-> FALSE, tier2 |-> << >>, tier3ran |-> FALSE,
     result |-> << >>, dialogs |-> << >>]

\* as extract_topics_from_pdf, with the handler of line 98 returning the dict
\* built so far instead of the sentinel
extract_topics_from_pdf_PartialOnReadError(doc) ==
    IF ~doc.open_ok
    THEN [NoRun EXCEPT !.called = TRUE, !.doc = doc,
                       !.result = ErrorMap(FailedToOpen),
                       !.dialogs = << "showerror" >>]
    ELSE IF ~doc.read_ok
    THEN [NoRun EXCEPT !.called = TRUE, !.doc = doc,
                       !.dialogs = << "showerror" >>]
    ELSE
        LET lines == SplitLines(PagesText(doc.pages, 1))
            tier1 == PrimaryPass(lines, 1,
                         [topics |-> << >>, current_subject |-> NoSubject]).topics
            cv == _clean_and_validate_topics(tier1, lines)
        IN  [called |-> TRUE, doc |-> doc, opened |-> TRUE, lines |-> lines,
             tier1 |-> tier1, cleaned1 |-> cv.cleaned1,
             tier2ran |-> cv.tier2ran, tier2 |-> cv.tier2,
             tier3ran |-> cv.tier3ran,
             result |-> cv.result, dialogs |-> cv.dialogs]

\* extract_topics_from_pdf(pdf_path) on the document behind pdf_path: the
\* returned map (result), the messagebox calls and the values of its locals
extract_topics_from_pdf(doc) ==
    IF ~doc.open_ok
    THEN [NoRun EXCEPT !.called = TRUE, !.doc = doc,
                       !.result = ErrorMap(FailedToOpen),
                       !.dialogs = << "showerror" >>]
    ELSE IF ~doc.read_ok
    THEN [NoRun EXCEPT !.called = TRUE, !.doc = doc,
                       !.result = ErrorMap(FailedToRead),
                       !.dialogs = << "showerror" >>]
    ELSE
        LET lines == SplitLines(PagesText(doc.pages, 1))
            tier1 == PrimaryPass(lines, 1,
                         [topics |-> << >>, current_subject |-> NoSubject]).topics
            cv == _clean_and_validate_topics(tier1, lines)
        IN  [called |-> TRUE, doc |-> doc, opened |-> TRUE, lines |-> lines,
             tier1 |-> tier1, cleaned1 |-> cv.cleaned1,
             tier2ran |-> cv.tier2ran, tier2 |-> cv.tier2,
             tier3ran |-> cv.tier3ran,
             result |-> cv.result, dialogs |-> cv.dialogs]

---------------------------------------------------------------------------
(* progress.json.  The text json.dump writes is a sequence of tokens; a    *)
(* write that fails part-way leaves a proper prefix of it.                 *)

Tok(t, v) == [t |-> t, v |-> v]

LBrace == Tok("punct", <<"{">>)
RBrace == Tok("punct", <<"}">>)
Colon  == Tok("punct", <<":">>)
Comma  == Tok("punct", <<",">>)

JsonTrue  == Tok("literal", <<"t","r","u","e">>)
JsonFalse == Tok("literal", <<"f","a","l","s","e">>)

JsonBool(b) == IF b THEN JsonTrue ELSE JsonFalse

JsonString(s) == Tok("string", s)

\* the members of the object, comma separated, from entry i on
RECURSIVE JsonMembers(_, _)
JsonMembers(d, i) ==
    IF i > Len(d) THEN << >>
    ELSE (IF i > 1 THEN << Comma >> ELSE << >>)
         \o << JsonString(d[i].k), Colon, JsonBool(d[i].v) >>
         \o JsonMembers(d, i + 1)

\* json.dump(progress, f) for a dict str -> bool
JsonDump(d) == << LBrace >> \o JsonMembers(d, 1) \o << RBrace >>

ParseFailed == [ok |-> FALSE, value |-> << >>]

\* the members from token i on: string ':' literal, then ',' and more, or '}'
\* as the last token; a repeated key keeps its place and takes the later value
RECURSIVE ParseMembers(_, _, _)
ParseMembers(toks, i, acc) ==
    IF /\ i + 3 <= Len(toks)
       /\ toks[i].t = "string"
       /\ toks[i + 1] = Colon
       /\ toks[i + 2] \in {JsonTrue, JsonFalse}
    THEN LET d == DictPut(acc, toks[i].v, toks[i + 2] = JsonTrue)
         IN  IF toks[i + 3] = RBrace
             THEN (IF i + 3 = Len(toks) THEN [ok |-> TRUE, value |-> d]
                   ELSE ParseFailed)
             ELSE IF toks[i + 3] = Comma THEN ParseMembers(toks, i + 4, d)
             ELSE ParseFailed
    ELSE ParseFailed

\* json.load(f) of a file holding an object str -> bool; anything else raises
JsonLoad(toks) ==
    IF toks = << LBrace, RBrace >> THEN [ok |-> TRUE, value |-> << >>]
    ELSE IF Len(toks) >= 1 /\ toks[1] = LBrace THEN ParseMembers(toks, 2, << >>)
    ELSE ParseFailed

NoFile == [exists |-> FALSE, content |-> << >>]

FileWith(toks) == [exists |-> TRUE, content |-> toks]

---------------------------------------------------------------------------
(* StudyTracker                                                            *)

\* the Subtopic strings of a TopicMap
Subtopics(tmap) ==
    UNION {{tmap[i].v[j] : j \in 1..Len(tmap[i].v)} : i \in 1..Len(tmap)}

\* _create_subject_frame: a fresh BooleanVar (False) is stored under each item;
\* the entries checkbox_vars held before stay
RECURSIVE _create_subject_frame(_, _, _)
_create_subject_frame(cv, items, j) ==
    IF j > Len(items) THEN cv
    ELSE _create_subject_frame(DictPut(cv, items[j], FALSE), items, j + 1)

\* the loop of refresh_ui over self.topics.items()
RECURSIVE CreateFrames(_, _, _)
CreateFrames(cv, tmap, i) ==
    IF i > Len(tmap) THEN cv
    ELSE CreateFrames(_create_subject_frame(cv, tmap[i].v, 1), tmap, i + 1)

\* the loop at lines 260-262 over progress.items()
RECURSIVE ApplyProgress(_, _, _)
ApplyProgress(cv, progress, i) ==
    IF i > Len(progress) THEN cv
    ELSE ApplyProgress(
             IF DictHas(cv, progress[i].k)
             THEN DictPut(cv, progress[i].k, progress[i].v)
             ELSE cv,
             progress, i + 1)

\* load_progress(): the checkbox values and the messagebox calls it makes.
\* readable = FALSE: open() or read() of the existing file raises
load_progress(cv, f, readable) ==
    IF ~f.exists THEN [checkbox_vars |-> cv, dialogs |-> << >>]
    ELSE IF ~readable \/ ~JsonLoad(f.content).ok
    THEN [checkbox_vars |-> cv, dialogs |-> << "showerror" >>]
    ELSE [checkbox_vars |-> ApplyProgress(cv, JsonLoad(f.content).value, 1),
          dialogs |-> << >>]

\* refresh_ui(): the frames, then load_progress()
refresh_ui(cv, tmap, f, readable) ==
    load_progress(CreateFrames(cv, tmap, 1), f, readable)

\* the longest partial write that is followed: a failing write leaves
\* 0..MaxWritten tokens behind
MaxWritten == 1

Min(a, b) == IF a <= b THEN a ELSE b

\* what the file system lets a save do: open(..., 'w') fails, or it truncates
\* the file and `written` tokens reach it (Len(JsonDump(cv)) of them: the
\* save succeeds)
SaveOutcomes(cv) ==
    LET n == Len(JsonDump(cv))
    IN  {[open_ok |-> FALSE, written |-> 0]}
        \cup {[open_ok |-> TRUE, written |-> k] : k \in 0..Min(MaxWritten, n - 1)}
        \cup {[open_ok |-> TRUE, written |-> n]}

\* as SaveResult, with the file opened in append mode
SaveResult_Append(cv, f, io) ==
    LET text == JsonDump(cv)
    IN  IF ~io.open_ok
        THEN [file |-> f, dialogs |-> << "showerror" >>]
        ELSE IF io.written < Len(text)
        THEN [file |-> FileWith(f.content \o SubSeq(text, 1, io.written)),
              dialogs |-> << "showerror" >>]
        ELSE [file |-> FileWith(f.content \o text), dialogs |-> << "showinfo" >>]

\* save_progress(): the file and the messagebox calls it makes
SaveResult(cv, f, io) ==
    LET text == JsonDump(cv)
    IN  IF ~io.open_ok
        THEN [file |-> f, dialogs |-> << "showerror" >>]
        ELSE IF io.written < Len(text)
        THEN [file |-> FileWith(SubSeq(text, 1, io.written)),
              dialogs |-> << "showerror" >>]
        ELSE [file |-> FileWith(text), dialogs |-> << "showinfo" >>]

---------------------------------------------------------------------------
(* Inputs.                                                                 *)

PageModuleI == <<"M","o","d","u","l","e"," ","I",":"," ","[","1","0","L","]","\n","-"," ","I","n","t","r","o","d","u","c","t","i","o","n"," ","t","o"," ","T","e","s","t","i","n","g","\n","-"," ","U","n","i","t"," ","T","e","s","t","s","\n">>
PageModuleII == <<"M","o","d","u","l","e"," ","I","I",":"," ","[","8","L","]","\n","a",")"," ","I","n","t","e","g","r","a","t","i","o","n","\n">>
PageNumbered == <<"1",".","2"," ","F","o","o","\n">>
PageNotes == <<"N","O","T","E","S",":","\n","f","o","o","\n">>
PageCaps == <<"A","B","C","D","\n">>
PagePlain == <<"a","b","c">>
PageBlank == <<" "," ","\n">>
PagePreface == <<"-"," ","p","\n","M","o","d","u","l","e"," ","I",":"," ","[","1","0","L","]","\n","-"," ","q","\n">>
PageSix == <<"a","\n","b","\n","c","\n","d","\n","e","\n","f","\n">>

PageTexts ==
    {PageModuleI, PageModuleII, PageNumbered, PageNotes, PageCaps,
     PagePlain, PageBlank, PagePreface, PageSix}

GoodPage(text) == [ok |-> TRUE, text |-> text]

\* a page whose extract_text() raises
BadPage == [ok |-> FALSE, text |-> << >>]

PageOutcomes == {GoodPage(t) : t \in PageTexts} \cup {BadPage}

MaxPages == 2

Pdf(pages) == [open_ok |-> TRUE, read_ok |-> TRUE, pages |-> pages]

\* open(pdf_path, 'rb') raises
UnopenablePdf == [open_ok |-> FALSE, read_ok |-> FALSE, pages |-> << >>]

\* PyPDF2.PdfReader(file) raises
UnreadablePdf == [open_ok |-> TRUE, read_ok |-> FALSE, pages |-> << >>]

Docs ==
    {Pdf(ps) : ps \in UNION {[1..n -> PageOutcomes] : n \in 0..MaxPages}}
    \cup {UnopenablePdf, UnreadablePdf}

Scenario1Pdf == Pdf(<< GoodPage(PageModuleI), GoodPage(PageModuleII) >>)

\* the documents a session picks from
SessionDocs ==
    {Scenario1Pdf,
     Pdf(<< GoodPage(PageModuleI) >>),
     Pdf(<< GoodPage(PageBlank) >>),
     UnopenablePdf}

\* extract_topics_from_pdf on each document (the method is pure: its result
\* depends on the document alone)
Extraction == [d \in Docs |-> extract_topics_from_pdf(d)]

UnitTests == <<"U","n","i","t"," ","T","e","s","t","s">>
OldTopic == <<"O","l","d"," ","T","o","p","i","c">>

\* progress.json when the session starts: absent, unparsable, or a record
InitFiles ==
    {NoFile,
     FileWith(<< LBrace >>),
     FileWith(JsonDump(<< [k |-> UnitTests, v |-> TRUE],
                          [k |-> OldTopic, v |-> TRUE] >>))}

---------------------------------------------------------------------------
(* The session: StudyTracker.__init__, then the three buttons and the      *)
(* checkboxes.                                                             *)

Init ==
    /\ topics = << >>
    /\ checkbox_vars = << >>
    /\ file \in InitFiles
    /\ dialogs = << >>
    /\ ext = NoRun

\* as load_pdf, but a result with the key "Error" is only reported: the
\* topics and the checkboxes stay as they were
load_pdf_SkipsErrorMap(doc, readable) ==
    LET run == Extraction[doc]
        ui == refresh_ui(checkbox_vars, run.result, file, readable)
    IN  /\ ext' = run
        /\ IF DictHas(run.result, ErrorKey)
           THEN /\ topics' = topics
                /\ checkbox_vars' = checkbox_vars
                /\ dialogs' = run.dialogs \o << "showerror" >>
           ELSE /\ topics' = run.result
                /\ checkbox_vars' = ui.checkbox_vars
                /\ dialogs' = run.dialogs \o ui.dialogs
        /\ UNCHANGED file

\* load_pdf() with a file chosen in the dialog
load_pdf(doc, readable) ==
    LET run == Extraction[doc]
        ui == refresh_ui(checkbox_vars, run.result, file, readable)
    IN  /\ ext' = run
        /\ topics' = run.result
        /\ IF run.result # << >>
           THEN /\ checkbox_vars' = ui.checkbox_vars
                /\ dialogs' = run.dialogs \o ui.dialogs
           ELSE /\ checkbox_vars' = checkbox_vars
                /\ dialogs' = run.dialogs \o << "showerror" >>
        /\ UNCHANGED file

\* load_pdf() with the dialog cancelled: pdf_path is empty
load_pdf_cancelled ==
    /\ dialogs' = << >>
    /\ UNCHANGED <<topics, checkbox_vars, file, ext>>

\* a click on the checkbox of `item`: its BooleanVar flips
Toggle(item) ==
    /\ item \in Subtopics(topics)
    /\ DictHas(checkbox_vars, item)
    /\ checkbox_vars' = DictPut(checkbox_vars, item, ~DictGet(checkbox_vars, item))
    /\ UNCHANGED <<topics, file, dialogs, ext>>

\* as save_progress, but a save that fails drops the checkboxes
save_progress_ClearsOnFailure(io) ==
    LET r == SaveResult(checkbox_vars, file, io)
    IN  /\ file' = r.file
        /\ dialogs' = r.dialogs
        /\ checkbox_vars' = IF r.dialogs = << "showinfo" >>
                            THEN checkbox_vars ELSE << >>
        /\ UNCHANGED <<topics, ext>>

\* save_progress()
save_progress(io) ==
    LET r == SaveResult(checkbox_vars, file, io)
    IN  /\ file' = r.file
        /\ dialogs' = r.dialogs
        /\ UNCHANGED <<topics, checkbox_vars, ext>>

\* as check_progress, without the call of save_progress() at line 287
check_progress_NoSave(io) ==
    /\ dialogs' = << "showinfo" >>
    /\ UNCHANGED <<topics, checkbox_vars, file, ext>>

\* check_progress(): the report, then save_progress()
check_progress(io) ==
    LET r == SaveResult(checkbox_vars, file, io)
    IN  /\ file' = r.file
        /\ dialogs' = << "showinfo" >> \o r.dialogs
        /\ UNCHANGED <<topics, checkbox_vars, ext>>

Next ==
    \/ \E doc \in SessionDocs, readable \in BOOLEAN : load_pdf(doc, readable)
    \/ load_pdf_cancelled
    \/ \E item \in Subtopics(topics) : Toggle(item)
    \/ \E io \in SaveOutcomes(checkbox_vars) : save_progress(io)
    \/ \E io \in SaveOutcomes(checkbox_vars) : check_progress(io)

Spec == Init /\ [][Next]_vars

---------------------------------------------------------------------------
(* The extractor on its own: extract_topics_from_pdf is a static method;   *)
(* each behaviour applies it to one document.                              *)

InitExtract ==
    /\ topics = << >>
    /\ checkbox_vars = << >>
    /\ file = NoFile
    /\ dialogs = << >>
    /\ ext \in {[NoRun EXCEPT !.doc = d] : d \in Docs}

ExtractCall ==
    /\ ~ext.called
    /\ ext' = Extraction[ext.doc]
    /\ dialogs' = ext'.dialogs
    /\ UNCHANGED <<topics, checkbox_vars, file>>

NextExtract == ExtractCall

SpecExtract == InitExtract /\ [][NextExtract]_vars

---------------------------------------------------------------------------
(* Properties of the extractor, checked under SpecExtract.                 *)

\* the document opened and PdfReader read it
Opened(run) == run.called /\ run.doc.open_ok /\ run.doc.read_ok

\* the texts of the pages whose extract_text() returned, in page order
ExtractedTexts(doc) == SelectSeq(doc.pages, LAMBDA p : p.ok)

RECURSIVE Concat(_)
Concat(texts) ==
    IF texts = << >> THEN << >> ELSE Head(texts).text \o Concat(Tail(texts))

\* the document's text has a line that is not empty after trimming
HasNonEmptyLine(doc) ==
    LET ls == SplitLines(Concat(ExtractedTexts(doc)))
    IN  \E i \in 1..Len(ls) : Strip(ls[i]) # << >>

\* C1: a document that opens and whose text has at least one non-empty
\* (trimmed) line never yields an empty TopicMap, whichever tier produced it.
C1_NonEmptyResult ==
    (Opened(ext) /\ HasNonEmptyLine(ext.doc)) => ext.result # << >>

\* C1 witness: a document with a non-empty line that went down to the default
\* section, and came back with it.
C1_Witness ==
    /\ Opened(ext) /\ HasNonEmptyLine(ext.doc)
    /\ ext.tier2ran /\ ext.tier3ran
    /\ DictKeys(ext.result) = {DetectedContent}
    /\ DictGet(ext.result, DetectedContent) # << >>

\* C2: a TopicMap returned by the primary pass or by the alternative parsing
\* (the default section was not used) holds no Subject with an empty list.
C2_NoEmptySubjectReturned ==
    (Opened(ext) /\ ~ext.tier3ran)
        => \A i \in 1..Len(ext.result) : ext.result[i].v # << >>

\* C3: the alternative parsing runs iff the primary map without its
\* empty-list Subjects is empty; the default section (and its warning) is used
\* iff the alternative map without its empty-list Subjects is empty as well.
C3_EscalationGating ==
    Opened(ext) =>
        /\ ext.tier2ran <=> (RemoveEmptySubjects(ext.tier1) = << >>)
        /\ ext.tier3ran <=>
               (ext.tier2ran /\ RemoveEmptySubjects(ext.tier2) = << >>)
        /\ ext.tier3ran <=> (ext.dialogs = << "showwarning" >>)

\* a bullet glyph, a lettered marker "a) " or a numeric marker "1.2 " in front
HasLeadingMarker(s) ==
    \/ At(s, 1, Bullet)
    \/ SubtopicPattern2(s)
    \/ SubtopicPattern3(s)

Scenario1Expected ==
    << [k |-> <<"M","o","d","u","l","e"," ","I",":"," ","[","1","0","L","]">>,
        v |-> << <<"I","n","t","r","o","d","u","c","t","i","o","n"," ","t","o"," ","T","e","s","t","i","n","g">>,
                 <<"U","n","i","t"," ","T","e","s","t","s">> >>],
       [k |-> <<"M","o","d","u","l","e"," ","I","I",":"," ","[","8","L","]">>,
        v |-> << <<"I","n","t","e","g","r","a","t","i","o","n">> >>] >>

\* C4: no Subtopic stored by the primary pass begins with a bullet glyph, a
\* lettered marker or a numeric marker, and the lines of Scenario 1 yield
\* exactly the map of Scenario 1.
C4_StrippingCorrect ==
    Opened(ext) =>
        /\ \A s \in Subtopics(ext.tier1) : ~HasLeadingMarker(s)
        /\ (ext.doc = Scenario1Pdf => ext.result = Scenario1Expected)

\* a Python dict str -> list of str, as returned by the extractor
IsTopicMap(m) ==
    /\ \A i, j \in 1..Len(m) : m[i].k = m[j].k => i = j
    /\ \A i \in 1..Len(m) : DOMAIN m[i] = {"k", "v"} /\ Len(m[i].v) >= 0

\* C9: extract_topics_from_pdf always returns a TopicMap; when the document
\* cannot be opened or read the result is exactly a one-entry map with key
\* "Error" and a one-element reason list, and nothing of a partly built map.
C9_ErrorSentinel ==
    ext.called =>
        /\ IsTopicMap(ext.result)
        /\ ~(ext.doc.open_ok /\ ext.doc.read_ok) =>
               /\ Len(ext.result) = 1
               /\ ext.result[1].k = ErrorKey
               /\ Len(ext.result[1].v) = 1
               /\ ext.result[1].v[1] \in {FailedToOpen, FailedToRead}

\* C9 witness: a file that opens and that PdfReader cannot read came back as
\* the sentinel.
C9_Witness ==
    /\ ext.called /\ ext.doc.open_ok /\ ~ext.doc.read_ok
    /\ ext.result = ErrorMap(FailedToRead)
    /\ ext.dialogs = << "showerror" >>

\* C10: a page whose text cannot be extracted does not abort the load: the
\* lines given to the builder are those of the other pages' texts joined in
\* page order, and the result is the one the document without the failing
\* pages gives.
C10_PageFailureSkipped ==
    Opened(ext) =>
        /\ ext.lines = SplitLines(Concat(ExtractedTexts(ext.doc)))
        /\ ext.result = extract_topics_from_pdf(Pdf(ExtractedTexts(ext.doc))).result
        /\ ~DictHas(ext.result, ErrorKey)

\* C10 witness: the first page failed, the second gave the two Subtopics of
\* Module I.
C10_Witness ==
    /\ Opened(ext)
    /\ ext.doc.pages = << BadPage, GoodPage(PageModuleI) >>
    /\ Len(ext.lines) = 4
    /\ Len(ext.result) = 1 /\ Len(ext.result[1].v) = 2

\* C11: a document that opens and has no non-empty line gets the warning and
\* comes back as an empty TopicMap, which is not the Error sentinel.
C11_EmptyDocumentEmptyMap ==
    (Opened(ext) /\ ~HasNonEmptyLine(ext.doc)) =>
        /\ ext.dialogs = << "showwarning" >>
        /\ ext.result = << >>

\* the stripped lines of the document that are not empty, in order
TrimmedNonEmpty(lines) ==
    SelectSeq([i \in 1..Len(lines) |-> Strip(lines[i])], LAMBDA l : l # << >>)

\* C17: when the default section is used, the result is the single Subject
\* "Detected Content" whose list is the first 10 non-empty trimmed lines of
\* the document in their order (all of them when there are fewer than 10).
C17_DefaultSection ==
    (Opened(ext) /\ ext.tier3ran) =>
        LET all == TrimmedNonEmpty(ext.lines)
        IN  /\ Len(ext.result) = 1
            /\ ext.result[1].k = DetectedContent
            /\ Len(ext.result[1].v) = Min(10, Len(all))
            /\ \A i \in 1..Len(ext.result[1].v) : ext.result[1].v[i] = all[i]

\* C17 witness: twelve non-empty lines, of which the first ten came back.
C17_Witness ==
    /\ Opened(ext) /\ ext.tier3ran
    /\ Len(TrimmedNonEmpty(ext.lines)) = 12
    /\ Len(ext.result) = 1
    /\ Len(ext.result[1].v) = 10
    /\ ext.result[1].v[10] = <<"d">>

\* the indexes of the Subject lines of a document
SubjectLines(lines) ==
    {i \in 1..Len(lines) : Strip(lines[i]) # << >> /\ IsSubject(Strip(lines[i]))}

\* the indexes of the lines where the Subject k stands
Occurrences(lines, k) == {i \in SubjectLines(lines) : Strip(lines[i]) = k}

SetMin(S) == CHOOSE x \in S : \A y \in S : x <= y

SetMax(S) == CHOOSE x \in S : \A y \in S : y <= x

\* the index of the Subject line most recently preceding line j, 0 if none
Owner(lines, j) ==
    LET before == {i \in SubjectLines(lines) : i < j}
    IN  IF before = {} THEN 0 ELSE SetMax(before)

\* line j is neither empty nor a Subject line, looks like a Subtopic and
\* leaves a text once its marker is stripped
Qualifies(lines, j) ==
    /\ Strip(lines[j]) # << >>
    /\ j \notin SubjectLines(lines)
    /\ IsSubtopic(lines[j]) \/ HasDoubleSpace(lines[j])
    /\ Strip(StripMarker(Strip(lines[j]))) # << >>

\* the Subtopic texts of the lines whose index is in S, in line order
ItemsOf(lines, S) ==
    LET idx == SelectSeq([j \in 1..Len(lines) |-> j], LAMBDA j : j \in S)
    IN  [p \in 1..Len(idx) |-> Strip(StripMarker(Strip(lines[idx[p]])))]

\* C12: the dict of the primary pass has unique keys, they are the Subject
\* lines in the order of their first appearance, and a Subject that appears
\* again starts over: its list holds nothing from before its last occurrence.
C12_KeysOrderedAndReset ==
    Opened(ext) =>
        LET t == ext.tier1
            lines == ext.lines
        IN  /\ \A a, b \in 1..Len(t) : t[a].k = t[b].k => a = b
            /\ DictKeys(t) = {Strip(lines[i]) : i \in SubjectLines(lines)}
            /\ \A a, b \in 1..Len(t) :
                  a < b => SetMin(Occurrences(lines, t[a].k))
                             < SetMin(Occurrences(lines, t[b].k))
            /\ \A a \in 1..Len(t) :
                  LET last == SetMax(Occurrences(lines, t[a].k))
                  IN  t[a].v = ItemsOf(lines,
                                 {j \in (last + 1)..Len(lines) :
                                     /\ Qualifies(lines, j)
                                     /\ Strip(lines[Owner(lines, j)]) = t[a].k})

\* C12 witness: a Subject stood twice, it had Subtopics after its first
\* occurrence, and its list holds the two that followed the second one.
C12_Witness ==
    /\ Opened(ext)
    /\ Len(ext.tier1) = 1
    /\ Cardinality(Occurrences(ext.lines, ext.tier1[1].k)) = 2
    /\ Cardinality({j \in 1..Len(ext.lines) : Qualifies(ext.lines, j)}) = 4
    /\ Len(ext.tier1[1].v) = 2

\* C16: in the dict of the primary pass every stored Subtopic stands under
\* the Subject line most recently preceding its line, and under no other; a
\* Subject line is never stored as a Subtopic, and a line before the first
\* Subject line is stored nowhere.
C16_SubtopicUnderPrecedingSubject ==
    Opened(ext) =>
        LET t == ext.tier1
            lines == ext.lines
            \* the lines stored under the Subject line at index i
            Stored(i) == {j \in 1..Len(lines) :
                             Qualifies(lines, j) /\ Owner(lines, j) = i}
        IN  /\ \A a \in 1..Len(t) :
                  t[a].v = ItemsOf(lines,
                                   Stored(SetMax(Occurrences(lines, t[a].k))))
            /\ \A a \in 1..Len(t) :
                  \A j \in Stored(SetMax(Occurrences(lines, t[a].k))) :
                      /\ j \notin SubjectLines(lines)
                      /\ j > SetMin(SubjectLines(lines))
            /\ (SubjectLines(lines) = {}) => t = << >>

\* C16 witness: two Subjects, each with the Subtopics that follow it, and a
\* line before the first Subject line that looks like a Subtopic and is kept
\* nowhere.
C16_Witness ==
    /\ Opened(ext)
    /\ Len(ext.tier1) = 2
    /\ ext.tier1[1].v # << >>
    /\ ext.tier1[2].v # << >>
    /\ \E j \in 1..Len(ext.lines) :
          /\ Owner(ext.lines, j) = 0
          /\ IsSubtopic(ext.lines[j])

---------------------------------------------------------------------------
(* Properties of the session, checked under Spec.                          *)

\* C5: the keys of the record the next save writes are exactly the Subtopic
\* strings of the current TopicMap.
C5_KeysAreCurrentSubtopics == DictKeys(checkbox_vars) = Subtopics(topics)

\* a save step (the button, or the save that ends check_progress) with the
\* file system behaving as io
SaveStep(io) == save_progress(io) \/ check_progress(io)

\* C6: after a save the file holds the full new record, or, if the save
\* failed, the content it had before.
C6_SaveAllOrNothing ==
    [][\A io \in SaveOutcomes(checkbox_vars) :
          SaveStep(io) =>
              \/ file' = FileWith(JsonDump(checkbox_vars))
              \/ file' = file]_vars

\* the save wrote everything
Succeeds(io, cv) == io.open_ok /\ io.written = Len(JsonDump(cv))

\* C7: for a non-empty record whose keys are exactly the current Subtopics, a
\* successful save leaves a file that holds that record and nothing else, and
\* a load right after it (load_progress alone, or through a reload of the same
\* document) gives every flag its saved value.
C7_RoundTrip ==
    [][\A io \in SaveOutcomes(checkbox_vars) :
          ( /\ save_progress(io)
            /\ Succeeds(io, checkbox_vars)
            /\ checkbox_vars # << >>
            /\ DictKeys(checkbox_vars) = Subtopics(topics) )
          => /\ file'.exists
             /\ JsonLoad(file'.content) = [ok |-> TRUE, value |-> checkbox_vars]
             /\ load_progress(checkbox_vars', file', TRUE).checkbox_vars
                    = checkbox_vars
             /\ refresh_ui(checkbox_vars', topics', file', TRUE).checkbox_vars
                    = checkbox_vars]_vars

\* C7 witness: a record over the current Subtopics, some done and some not,
\* has just been saved.
C7_Witness ==
    /\ dialogs = << "showinfo" >>
    /\ checkbox_vars # << >>
    /\ DictKeys(checkbox_vars) = Subtopics(topics)
    /\ file = FileWith(JsonDump(checkbox_vars))
    /\ \E i, j \in 1..Len(checkbox_vars) :
           checkbox_vars[i].v /\ ~checkbox_vars[j].v

\* the record load_progress gets from the file: empty when the file is
\* absent or cannot be read or parsed
Persisted(f, readable) ==
    IF f.exists /\ readable /\ JsonLoad(f.content).ok
    THEN JsonLoad(f.content).value
    ELSE << >>

\* C8: after a load and refresh every Subtopic of the current TopicMap has
\* the persisted value when the persisted record has it and false otherwise,
\* whatever was set in memory; a persisted key that is no Subtopic of the
\* current TopicMap changes no flag and raises no error.
C8_FlagsFromPersisted ==
    [][\A doc \in SessionDocs, readable \in BOOLEAN :
          load_pdf(doc, readable) =>
              LET rec == Persisted(file, readable)
              IN  /\ \A s \in Subtopics(topics') :
                        /\ DictHas(checkbox_vars', s)
                        /\ DictGet(checkbox_vars', s)
                               = (DictHas(rec, s) /\ DictGet(rec, s))
                  /\ \A k \in DictKeys(checkbox_vars) \ Subtopics(topics') :
                        DictGet(checkbox_vars', k) = DictGet(checkbox_vars, k)
                  /\ (file.exists /\ readable /\ JsonLoad(file.content).ok)
                        => dialogs' = ext'.dialogs]_vars


\* progress.json is there and load_progress fails on it: it cannot be read,
\* or its text is no JSON document
LoadFails(f, readable) == f.exists /\ (~readable \/ ~JsonLoad(f.content).ok)

\* C13: a load with no persisted file reports no error, a load with a file
\* that cannot be parsed reports one, and in both cases every completion flag
\* is false afterwards.
C13_FailedLoadLeavesFlagsFalse ==
    [][\A doc \in SessionDocs, readable \in BOOLEAN :
          (load_pdf(doc, readable) /\ (~file.exists \/ LoadFails(file, readable)))
          => /\ ~file.exists => dialogs' = ext'.dialogs
             /\ file.exists => dialogs' = ext'.dialogs \o << "showerror" >>
             /\ \A i \in 1..Len(checkbox_vars') : ~checkbox_vars'[i].v]_vars

\* the window still answers: a save and a check can be started and every
\* checkbox on display can be clicked (load_pdf has no guard at all)
Usable ==
    /\ ENABLED (\E io \in SaveOutcomes(checkbox_vars) : save_progress(io))
    /\ ENABLED (\E io \in SaveOutcomes(checkbox_vars) : check_progress(io))
    /\ \A item \in Subtopics(topics) : ENABLED Toggle(item)

\* the last handler ended with an error report
LastFailed == dialogs # << >> /\ dialogs[Len(dialogs)] = "showerror"

C18_CheckProgressSaves ==
    [][\A io \in SaveOutcomes(checkbox_vars) :
          (check_progress(io) /\ Succeeds(io, checkbox_vars))
          => /\ file'.exists
             /\ JsonLoad(file'.content) = [ok |-> TRUE, value |-> checkbox_vars']
             /\ dialogs' = << "showinfo", "showinfo" >>]_vars

\* C18 witness: check_progress ran with no document loaded and the file now
\* holds the empty record.
C18_Witness ==
    /\ dialogs = << "showinfo", "showinfo" >>
    /\ topics = << >>
    /\ checkbox_vars = << >>
    /\ file = FileWith(<< LBrace, RBrace >>)

\* the reason strings of the Error sentinel
Reasons == {FailedToOpen, FailedToRead}

\* C19: a load that ends in the Error sentinel makes the sentinel the
\* TopicMap and gives its reason string a completion flag; the flag stays in
\* the record, and every later save that succeeds writes it to the file.
C19_SentinelShownAsTopics ==
    [][/\ \A doc \in SessionDocs, readable \in BOOLEAN :
             (load_pdf(doc, readable) /\ DictHas(Extraction[doc].result, ErrorKey))
             => /\ topics' = Extraction[doc].result
                /\ \E r \in Reasons :
                      /\ topics' = ErrorMap(r)
                      /\ Subtopics(topics') = {r}
                      /\ DictHas(checkbox_vars', r)
                /\ LoadFails(file, readable) =>
                      dialogs'[Len(dialogs')] = "showerror"
       /\ \A r \in Reasons : DictHas(checkbox_vars, r) => DictHas(checkbox_vars', r)
       /\ \A io \in SaveOutcomes(checkbox_vars) :
             (SaveStep(io) /\ Succeeds(io, checkbox_vars))
             => \A r \in Reasons :
                   DictHas(checkbox_vars, r) =>
                       /\ JsonLoad(file'.content).ok
                       /\ DictHas(JsonLoad(file'.content).value, r)]_vars

\* C19 witness: the reason string is in the file, with its flag set, while
\* the TopicMap on display is that of a document loaded later.
C19_Witness ==
    /\ topics # << >>
    /\ ~DictHas(topics, ErrorKey)
    /\ file.exists
    /\ JsonLoad(file.content).ok
    /\ DictHas(JsonLoad(file.content).value, FailedToOpen)
    /\ DictGet(JsonLoad(file.content).value, FailedToOpen)

=============================================================================
